---- MODULE Spec2Model ----
(***************************************************************************)
(* A model of jmx-cron (src/jmx-cron.go, the second program of the file,   *)
(* lines 226-545): one sweep of main().  main fetches the instance list    *)
(* from the admin portal, starts one getResponseTime goroutine per         *)
(* instance, collects their results on an unbuffered channel in            *)
(* waitForDomains, calls getJmxAttributes once per instance (sequentially, *)
(* the return value is not used) and POSTs the collected list with         *)
(* updateAdminPortal.                                                      *)
(***************************************************************************)
EXTENDS Integers, Sequences, FiniteSets, TLC

\* ------------------------------------------------------------------ bounds

\* The largest instance list the directory returns.
MaxInstances == 2

\* ------------------------------------------------------- program constants

\* http.StatusOK
StatusOK == 200
\* getResponseTime: client := http.Client{Timeout: 1 * time.Second}
ProbeTimeout == 1
\* getJmxAttributes: client := &http.Client{Timeout: 2 * time.Second}
JmxTimeout == 2
\* http.Get / &http.Client{} use a client whose Timeout is zero: no timeout
NoTimeout == 0
\* getInstancesFromPortal: the body is decoded only if len(body) > 5
MinBodyLen == 5

\* ------------------------------------------------------------------ strings

\* Strings the code inspects are sequences of characters.
Sakai == <<"s", "a", "k", "a", "i">>

\* strings.Contains(s, sub)
Contains(s, sub) ==
    \E k \in 0..(Len(s) - Len(sub)) :
        \A j \in 1..Len(sub) : s[k + j] = sub[j]

\* ------------------------------------------------------------ the directory

\* The ProjectName values the admin portal hands out.
ProjectNames ==
    << Sakai \o <<"1", "1">>,
       <<"m", "o", "o", "d", "l", "e">>,
       <<"m", "y">> \o Sakai >>

\* The i-th TomcatInstance of the portal's list (type TomcatInstance).
Instance(i) ==
    [ ServerID    |-> i,
      ServerIP    |-> <<"10.4.100.", i>>,
      HTTPPort    |-> <<"80", i>>,
      JmxPort     |-> <<"90", i>>,
      ProjectName |-> ProjectNames[((i - 1) % Len(ProjectNames)) + 1] ]

\* The list json.Unmarshal produces from a body naming n instances.
InstanceList(n) == [i \in 1..n |-> Instance(i)]

\* The status codes a server answers with.
StatusCodes == {200, 204, 404, 500}

\* What the remote end of one HTTP request does: it answers with a status,
\* the transport fails at once (refused, DNS), or it never answers.
RemoteBehaviours ==
    [kind : {"status"}, code : StatusCodes]
        \cup {[kind |-> "refused", code |-> 0], [kind |-> "silent", code |-> 0]}

\* client.Do / client.Get / http.Get under a client-side Timeout (0: none).
\* done = FALSE: the call has not returned and never will.
HttpDo(timeout, remote) ==
    CASE remote.kind = "status"  -> [done |-> TRUE, err |-> "", status |-> remote.code]
      [] remote.kind = "refused" -> [done |-> TRUE, err |-> "refused", status |-> 0]
      [] remote.kind = "silent"  ->
            IF timeout > NoTimeout
            THEN [done |-> TRUE, err |-> "timeout", status |-> 0]
            ELSE [done |-> FALSE, err |-> "", status |-> 0]

\* The bodies the directory answers a 200 with: too short to decode
\* (len(body) <= 5, n = 0), a syntax error (json.Unmarshal leaves the list nil),
\* or a JSON array of n instances.
DirBodies ==
    {[len |-> 2, valid |-> TRUE, n |-> 0], [len |-> 40, valid |-> FALSE, n |-> 0]}
        \cup [len : {40}, valid : {TRUE}, n : 0..MaxInstances]

VARIABLES
    mainPc,             \* where main is: "getInstances", "spawn", "wait", "jmx",
                        \* "done" (returned, exit 0), "exit1" (os.Exit(1)),
                        \* "panic" (exit 2), "deadlock" (runtime fatal error, exit 2)
    dirResp,            \* what the directory lookup returned
    instances,          \* main's instances
    spawned,            \* how many go statements main has executed
    task,               \* the getResponseTime goroutines, by instance index
    tomcatCheckMapping, \* waitForDomains' list (and main's, once it returned)
    returnedCount,      \* waitForDomains' counter
    jmxCalls,           \* the getJmxAttributes calls made so far and what they returned
    posted,             \* the bodies POSTed to the admin portal, in order
    postResp            \* what client.Do returned in updateAdminPortal

vars == <<mainPc, dirResp, instances, spawned, task, tomcatCheckMapping,
          returnedCount, jmxCalls, posted, postResp>>

NoResp == [done |-> FALSE, err |-> "", status |-> 0]
NoResult == [ServerID |-> 0, ServerStatus |-> FALSE, DataType |-> "", ServerResponse |-> ""]
NoUrl == [host |-> <<>>, port |-> <<>>, path |-> <<>>]
IdleTask == [pc |-> "unstarted", url |-> NoUrl, resp |-> NoResp, result |-> NoResult]

Init ==
    /\ mainPc = "getInstances"
    /\ dirResp = [done |-> FALSE, err |-> "", status |-> 0, body |-> [len |-> 0, valid |-> FALSE, n |-> 0]]
    /\ instances = <<>>
    /\ spawned = 0
    /\ task = [i \in 1..MaxInstances |-> IdleTask]
    /\ tomcatCheckMapping = <<>>
    /\ returnedCount = 0
    /\ jmxCalls = <<>>
    /\ posted = <<>>
    /\ postResp = NoResp

\* ------------------------------------------------- getInstancesFromPortal

\* getInstancesFromPortal without the os.Exit(1) of its else branch: a bad
\* status is logged and the nil list returned.
GetInstancesFromPortalResult_NoExit(r, body) ==
    IF r.err # ""
    THEN [pc |-> "panic", list |-> <<>>]
    ELSE [pc |-> "spawn",
          list |-> IF r.status = StatusOK /\ body.len > MinBodyLen /\ body.valid
                   THEN InstanceList(body.n)
                   ELSE <<>>]

\* What getInstancesFromPortal does with the response of client.Do:
\* panic on a transport error, os.Exit(1) on a status other than 200, and
\* otherwise the decoded list (nil when the body is short or does not parse).
GetInstancesFromPortalResult(r, body) ==
    IF r.err # ""
    THEN [pc |-> "panic", list |-> <<>>]
    ELSE IF r.status = StatusOK
         THEN [pc |-> "spawn",
               list |-> IF body.len > MinBodyLen /\ body.valid
                        THEN InstanceList(body.n)
                        ELSE <<>>]
         ELSE [pc |-> "exit1", list |-> <<>>]

\* main: instances := getInstancesFromPortal().  The client has no Timeout,
\* so a directory that never answers leaves main blocked in client.Do.
GetInstancesFromPortal ==
    /\ mainPc = "getInstances"
    /\ \E remote \in RemoteBehaviours, body \in DirBodies :
         LET r == HttpDo(NoTimeout, remote) IN
         IF ~r.done
         THEN /\ mainPc' = "blocked"
              /\ UNCHANGED <<dirResp, instances>>
         ELSE LET got == GetInstancesFromPortalResult(r, body) IN
              /\ dirResp' = [done |-> TRUE, err |-> r.err, status |-> r.status, body |-> body]
              /\ instances' = got.list
              /\ mainPc' = got.pc
    /\ UNCHANGED <<spawned, task, tomcatCheckMapping, returnedCount, jmxCalls, posted, postResp>>

\* ------------------------------------------------------- main's first loop

\* urlToTest with the test of ProjectName left out: every instance is probed
\* at the login path.
UrlToTest_AlwaysLogin(inst) ==
    [ host |-> inst.ServerIP,
      port |-> inst.HTTPPort,
      path |-> <<"/", "portal/xlogin">> ]

\* main: urlToTest for one instance.
UrlToTest(inst) ==
    [ host |-> inst.ServerIP,
      port |-> inst.HTTPPort,
      path |-> IF Contains(inst.ProjectName, Sakai)
               THEN <<"/", "portal/xlogin">>
               ELSE <<"/">> ]

\* main: one iteration of the first loop, go getResponseTime(...).
SpawnHealthTask ==
    /\ mainPc = "spawn"
    /\ spawned < Len(instances)
    /\ spawned' = spawned + 1
    /\ task' = [task EXCEPT ![spawned + 1] =
                  [IdleTask EXCEPT !.pc = "timedGet",
                                   !.url = UrlToTest(instances[spawned + 1])]]
    /\ UNCHANGED <<mainPc, dirResp, instances, tomcatCheckMapping, returnedCount,
                   jmxCalls, posted, postResp>>

\* ---------------------------------------------------------- getResponseTime

\* httpOK with the status tested against the 2xx range instead of 200.
HttpOK_2xx(r) ==
    IF r.err # "" THEN FALSE ELSE r.status >= 200 /\ r.status < 300

\* httpOK as getResponseTime computes it from (resp, err) of http.Get.
HttpOK(r) ==
    IF r.err # "" THEN FALSE ELSE r.status = StatusOK

\* The TomcatCheckResult getResponseTime sends.  requestTime is the elapsed
\* time in microseconds, formatted; its value plays no part here.
HealthResult(inst, r) ==
    [ ServerID       |-> inst.ServerID,
      ServerStatus   |-> HttpOK(r),
      DataType       |-> "time",
      ServerResponse |-> "elapsed_us" ]

\* getResponseTime: client.Get(urlToTest) on the client with the 1 s Timeout.
\* The response and the error are dropped.
TimedGet(i) ==
    /\ task[i].pc = "timedGet"
    /\ \E remote \in RemoteBehaviours :
         HttpDo(ProbeTimeout, remote).done
    /\ task' = [task EXCEPT ![i].pc = "plainGet"]
    /\ UNCHANGED <<mainPc, dirResp, instances, spawned, tomcatCheckMapping,
                   returnedCount, jmxCalls, posted, postResp>>

\* getResponseTime: resp, err := http.Get(urlToTest), on the default client,
\* which has no Timeout; then httpOK, and the goroutine reaches the send.
PlainGet(i) ==
    /\ task[i].pc = "plainGet"
    /\ \E remote \in RemoteBehaviours :
         LET r == HttpDo(NoTimeout, remote) IN
         IF ~r.done
         THEN task' = [task EXCEPT ![i].pc = "blocked"]
         ELSE task' = [task EXCEPT ![i].pc = "send",
                                   ![i].resp = r,
                                   ![i].result = HealthResult(instances[i], r)]
    /\ UNCHANGED <<mainPc, dirResp, instances, spawned, tomcatCheckMapping,
                   returnedCount, jmxCalls, posted, postResp>>

\* ----------------------------------------------------------- waitForDomains

\* waitForDomains with returnedCount starting at 1: one receive too few.
WaitForDomains_CountFromOne ==
    /\ mainPc = "spawn"
    /\ spawned = Len(instances)
    /\ mainPc' = "wait"
    /\ returnedCount' = 1
    /\ tomcatCheckMapping' = <<>>
    /\ UNCHANGED <<dirResp, instances, spawned, task, jmxCalls, posted, postResp>>

\* main: the first loop is over, waitForDomains(responseChannel, len(instances))
\* is entered and reaches its first receive.
WaitForDomains ==
    /\ mainPc = "spawn"
    /\ spawned = Len(instances)
    /\ mainPc' = "wait"
    /\ returnedCount' = 0
    /\ tomcatCheckMapping' = <<>>
    /\ UNCHANGED <<dirResp, instances, spawned, task, jmxCalls, posted, postResp>>

\* The loop test off by one: the loop ends one receive early.
LoopExit_OffByOne(count, instanceCount) == count >= instanceCount - 1

\* The loop test without the count: the loop ends after the first receive.
LoopExit_First(count, instanceCount) == count >= 1

\* waitForDomains: the test that ends its loop, made after each receive.
LoopExit(count, instanceCount) == count >= instanceCount

\* The receive with an assignment in place of the append: the list keeps
\* only the result received last.
Receive_Overwrite(i) ==
    /\ mainPc = "wait"
    /\ task[i].pc = "send"
    /\ task' = [task EXCEPT ![i].pc = "done", ![i].resp = NoResp]
    /\ tomcatCheckMapping' = <<task[i].result>>
    /\ returnedCount' = returnedCount + 1
    /\ mainPc' = IF returnedCount + 1 >= Len(instances) THEN "jmx" ELSE "wait"
    /\ UNCHANGED <<dirResp, instances, spawned, jmxCalls, posted, postResp>>

\* The rendezvous on the unbuffered channel: task i's send meets
\* waitForDomains' receive; append, count, test.  The goroutine returns and
\* its resp is closed and gone.
Receive(i) ==
    /\ mainPc = "wait"
    /\ task[i].pc = "send"
    /\ task' = [task EXCEPT ![i].pc = "done", ![i].resp = NoResp]
    /\ tomcatCheckMapping' = Append(tomcatCheckMapping, task[i].result)
    /\ returnedCount' = returnedCount + 1
    /\ mainPc' = IF LoopExit(returnedCount + 1, Len(instances)) THEN "jmx" ELSE "wait"
    /\ UNCHANGED <<dirResp, instances, spawned, jmxCalls, posted, postResp>>

\* The Go runtime ends the process ("all goroutines are asleep - deadlock!")
\* when main is blocked in the receive and no other goroutine exists.  Whether
\* it notices depends on the network poller, so it may also never happen.
DeadlockDetected ==
    /\ mainPc = "wait"
    /\ \A i \in 1..MaxInstances : task[i].pc \in {"unstarted", "done"}
    /\ mainPc' = "deadlock"
    /\ UNCHANGED <<dirResp, instances, spawned, task, tomcatCheckMapping,
                   returnedCount, jmxCalls, posted, postResp>>

\* --------------------------------------------------------- getJmxAttributes

\* The four metric kinds, by the Mbean each is read from.
HeapMbean == "java.lang:type=Memory"
ThreadMbean == "java.lang:type=Threading"
CpuMbean == "java.lang:type=OperatingSystem"
SessionMbean == "org.sakaiproject:name=Sessions"
MetricMbeans == {HeapMbean, ThreadMbean, CpuMbean, SessionMbean}

\* The address written into heapRequest, threadRequest and cpuRequest.
FixedJmxAddress == <<"10.4.100.", 215, ":", "51889">>

\* Target.URL: "service:jmx:rmi:///jndi/rmi://" + address + "/jmxrmi"
TargetURL(address) == <<"service:jmx:rmi:///jndi/rmi://">> \o address \o <<"/jmxrmi">>

\* main: TomcatInstance.ServerIP + ":" + TomcatInstance.JmxPort
JmxURL(inst) == inst.ServerIP \o <<":">> \o inst.JmxPort

\* getJmxAttributes: requestArray.
RequestArray(jmxURL) ==
    << [Type |-> "READ", Mbean |-> HeapMbean, Attribute |-> "HeapMemoryUsage",
        Path |-> "used", Target |-> TargetURL(FixedJmxAddress)],
       [Type |-> "READ", Mbean |-> ThreadMbean, Attribute |-> "ThreadCount",
        Path |-> "", Target |-> TargetURL(FixedJmxAddress)],
       [Type |-> "READ", Mbean |-> CpuMbean, Attribute |-> "ProcessCpuTime",
        Path |-> "", Target |-> TargetURL(FixedJmxAddress)],
       [Type |-> "READ", Mbean |-> SessionMbean, Attribute |-> "Active15Min",
        Path |-> "", Target |-> TargetURL(jmxURL)] >>

\* The bodies the metrics proxy answers with: one that does not decode, or
\* an array with an entry for each Mbean of a set (all four, or one missing).
JmxBodies ==
    {[valid |-> FALSE, entries |-> {}]}
        \cup {[valid |-> TRUE, entries |-> e] :
                e \in {m \in SUBSET MetricMbeans : Cardinality(m) >= 3}}

\* What getJmxAttributes returns: (nil, respErr), (nil, decode error) or
\* (&respJ, nil).  The status of the response is not looked at.
GetJmxAttributesResult(r, body) ==
    IF r.err # ""
    THEN [respJ |-> {}, err |-> r.err]
    ELSE IF ~body.valid
         THEN [respJ |-> {}, err |-> "decode"]
         ELSE [respJ |-> body.entries, err |-> ""]

\* main: one iteration of the second loop, a call of getJmxAttributes whose
\* return value main drops.  The request runs under the 2 s Timeout.
GetJmxAttributes ==
    /\ mainPc = "jmx"
    /\ Len(jmxCalls) < Len(instances)
    /\ \E remote \in RemoteBehaviours, body \in JmxBodies :
         LET inst == instances[Len(jmxCalls) + 1]
             r == HttpDo(JmxTimeout, remote)
         IN  /\ r.done
             /\ jmxCalls' = Append(jmxCalls,
                    [ ServerID |-> inst.ServerID,
                      requests |-> RequestArray(JmxURL(inst)),
                      ret      |-> GetJmxAttributesResult(r, body) ])
    /\ UNCHANGED <<mainPc, dirResp, instances, spawned, task, tomcatCheckMapping,
                   returnedCount, posted, postResp>>

\* --------------------------------------------------------- updateAdminPortal

\* updateAdminPortal without its panic: the error is logged and main returns.
UpdateAdminPortalResult_Swallow(r) == "done"

\* What updateAdminPortal does with (resp, err) of client.Do: panic on an
\* error, return otherwise, whatever the status; main then returns.
UpdateAdminPortalResult(r) ==
    IF r.err # "" THEN "panic" ELSE "done"

\* main: the second loop is over; updateAdminPortal(tomcatCheckMapping) POSTs
\* the list once, on a client without Timeout, and main returns.
UpdateAdminPortal ==
    /\ mainPc = "jmx"
    /\ Len(jmxCalls) = Len(instances)
    /\ posted' = Append(posted, tomcatCheckMapping)
    /\ \E remote \in RemoteBehaviours :
         LET r == HttpDo(NoTimeout, remote) IN
         /\ postResp' = r
         /\ mainPc' = IF r.done THEN UpdateAdminPortalResult(r) ELSE "blocked"
    /\ UNCHANGED <<dirResp, instances, spawned, task, tomcatCheckMapping,
                   returnedCount, jmxCalls>>

\* -------------------------------------------------------------- the program

MainStep ==
    \/ GetInstancesFromPortal
    \/ SpawnHealthTask
    \/ WaitForDomains
    \/ GetJmxAttributes
    \/ UpdateAdminPortal

TaskStep(i) ==
    \/ TimedGet(i)
    \/ PlainGet(i)
    \/ Receive(i)

Next ==
    \/ MainStep
    \/ \E i \in 1..MaxInstances : TaskStep(i)
    \/ DeadlockDetected

Spec == Init /\ [][Next]_vars

\* The Go scheduler runs every goroutine that can take a step.  The runtime's
\* deadlock detection is not promised.
FairSpec ==
    /\ Spec
    /\ WF_vars(MainStep)
    /\ \A i \in 1..MaxInstances : WF_vars(TaskStep(i))

\* ------------------------------------------------------------------ claims

\* The positions of list that hold a result of server id for kind.
ResultsFor(list, id, kind) ==
    {k \in 1..Len(list) : list[k].ServerID = id /\ list[k].DataType = kind}

\* The DataType of the health result, and the five check kinds.
HealthKind == "time"
CheckKinds == {HealthKind} \cup MetricMbeans

\* waitForDomains has returned to main.
WaitReturned == mainPc = "jmx" \/ posted # <<>>

\* C1: in every list passed to updateAdminPortal there is exactly one
\* CheckResult for every instance of the directory and every check kind
\* (health and the four metric kinds).
C1_ExactlyOneResultPerPair ==
    \A p \in 1..Len(posted) :
        \A i \in 1..Len(instances) :
            \A kind \in CheckKinds :
                Cardinality(ResultsFor(posted[p], instances[i].ServerID, kind)) = 1

\* C2: when the directory answers with an empty list, the sweep goes on to
\* call updateAdminPortal with an empty report.
C2_EmptySweepReports ==
    (mainPc = "spawn" /\ Len(instances) = 0) ~> (posted = << <<>> >>)

\* C3: a report is sent only when every task main dispatched has delivered
\* its result to waitForDomains, and the report holds that result.
C3_NoPartialReport ==
    posted # <<>> =>
        /\ spawned = Len(instances)
        /\ \A i \in 1..spawned :
              /\ task[i].pc = "done"
              /\ \E k \in 1..Len(posted[1]) : posted[1][k] = task[i].result

\* C3's case: a report of two or more instances has been sent.
C3_Witness == posted # <<>> /\ spawned >= 2

\* C4: when the proxy's answer for an instance decodes and has entries for
\* three of the four metric kinds, the report holds exactly one failure
\* result for the missing kind and one result for each answered kind.
C4_MissingKindIsExplicitFailure ==
    \A p \in 1..Len(posted) :
        \A c \in 1..Len(jmxCalls) :
            (jmxCalls[c].ret.err = "" /\ Cardinality(jmxCalls[c].ret.respJ) = 3) =>
                /\ \A m \in MetricMbeans \ jmxCalls[c].ret.respJ :
                      /\ Cardinality(ResultsFor(posted[p], jmxCalls[c].ServerID, m)) = 1
                      /\ \A k \in ResultsFor(posted[p], jmxCalls[c].ServerID, m) :
                            ~posted[p][k].ServerStatus
                /\ \A m \in jmxCalls[c].ret.respJ :
                      Cardinality(ResultsFor(posted[p], jmxCalls[c].ServerID, m)) = 1

\* C5: when getJmxAttributes fails at transport level for an instance, the
\* report holds four failure results for it, one per metric kind, beside its
\* health result: five entries.
C5_TransportFailureRecorded ==
    \A p \in 1..Len(posted) :
        \A c \in 1..Len(jmxCalls) :
            jmxCalls[c].ret.err \in {"refused", "timeout"} =>
                /\ \A m \in MetricMbeans :
                      /\ Cardinality(ResultsFor(posted[p], jmxCalls[c].ServerID, m)) = 1
                      /\ \A k \in ResultsFor(posted[p], jmxCalls[c].ServerID, m) :
                            ~posted[p][k].ServerStatus
                /\ Cardinality({k \in 1..Len(posted[p]) :
                                  posted[p][k].ServerID = jmxCalls[c].ServerID}) = 5

\* The process ended abnormally before any report was attempted, although
\* the directory had returned instances: only a probe can have caused it.
AbortedByProbe ==
    /\ Len(instances) >= 1
    /\ posted = <<>>
    /\ mainPc \in {"panic", "exit1", "deadlock"}

\* A response that is not a success: a transport error or a non-2xx status.
ProbeFailed(r) == r.err # "" \/ r.status < 200 \/ r.status >= 300

\* C6: with one instance or more, whatever the probes meet, no probe ends
\* the process, a failed health probe publishes success = false, and the
\* sweep reaches updateAdminPortal and, the sink answering, ends normally.
C6_ProbeFailureIsValue ==
    /\ [](~AbortedByProbe)
    /\ [](\A i \in 1..MaxInstances :
            (task[i].pc = "send" /\ ProbeFailed(task[i].resp)) =>
                ~task[i].result.ServerStatus)
    /\ (mainPc = "wait" /\ Len(instances) >= 1) ~> (posted # <<>>)
    /\ [](posted # <<>> => mainPc \in {"done", "panic", "blocked"})

\* C7: once the directory has answered with a status outside 2xx, the
\* process has ended with os.Exit(1) and no health task was started, no
\* metrics probe called and no report sent.
C7_DirectoryFailureIsFatal ==
    (dirResp.done /\ dirResp.err = "" /\ (dirResp.status < 200 \/ dirResp.status >= 300)) =>
        /\ mainPc = "exit1"
        /\ spawned = 0
        /\ \A i \in 1..MaxInstances : task[i].pc = "unstarted"
        /\ jmxCalls = <<>>
        /\ posted = <<>>

\* C7's case: the directory answered 404 and the process exited.
C7_Witness == dirResp.done /\ dirResp.status = 404 /\ mainPc = "exit1"

\* C8: whenever waitForDomains has returned, the number of results it
\* received and the length of its list equal the number of tasks dispatched.
C8_WaitCountsArrivals ==
    WaitReturned =>
        /\ spawned = Len(instances)
        /\ returnedCount = spawned
        /\ Len(tomcatCheckMapping) = spawned

\* C8's case: waitForDomains has returned from a wait for two or more tasks.
C8_Witness == WaitReturned /\ spawned >= 2 /\ returnedCount >= 2

\* C9: every health task that was started sends its result, and a sweep of
\* one instance or more reaches the report step.
C9_HealthProbeTimeBounded ==
    /\ \A i \in 1..MaxInstances :
          (task[i].pc = "timedGet") ~> (task[i].pc = "done")
    /\ (mainPc = "spawn" /\ Len(instances) >= 1) ~> (posted # <<>>)

\* C10 as stated: the health result has success = true exactly when the
\* request returned without transport error and with a status in 200..299.
C10_SuccessIff2xx ==
    \A i \in 1..MaxInstances :
        task[i].pc = "send" =>
            (task[i].result.ServerStatus <=>
                (task[i].resp.err = "" /\ task[i].resp.status >= 200
                    /\ task[i].resp.status < 300))

\* C10 amended: the health result has success = true exactly when the
\* request returned without transport error and with status 200; the result
\* names the instance and the kind "time".
C10_SuccessIff200 ==
    \A i \in 1..MaxInstances :
        task[i].pc = "send" =>
            /\ task[i].result.ServerStatus <=>
                  (task[i].resp.err = "" /\ task[i].resp.status = 200)
            /\ task[i].result.ServerID = instances[i].ServerID
            /\ task[i].result.DataType = HealthKind

\* C10's case: a health request answered 204 and its result says failure.
C10_Witness ==
    \E i \in 1..MaxInstances :
        /\ task[i].pc = "send"
        /\ task[i].resp.err = ""
        /\ task[i].resp.status = 204
        /\ ~task[i].result.ServerStatus

\* The metrics probes main has launched so far: its calls of getJmxAttributes.
MetricsLaunched == Len(jmxCalls)

\* C11: main launches the health probe and the metrics probe of every
\* instance before it waits, so while it waits in waitForDomains the metrics
\* probe of every instance has been launched beside the health tasks.
C11_FanOutBothKindsBeforeWait ==
    mainPc = "wait" =>
        /\ spawned = Len(instances)
        /\ MetricsLaunched = Len(instances)

\* C12: the report is POSTed at most once, and when that POST fails (client.Do
\* returns an error) the process has ended in the panic, one POST made and
\* no second one.
C12_ReportPostedOnceFailureTerminal ==
    /\ Len(posted) <= 1
    /\ (postResp.done \/ mainPc = "done") => Len(posted) = 1
    /\ (postResp.done /\ postResp.err # "") =>
          /\ mainPc = "panic"
          /\ Len(posted) = 1
    /\ (mainPc = "panic" /\ posted # <<>>) => (postResp.done /\ postResp.err # "")

\* C12's case: the POST of a report failed and the process panicked.
C12_Witness ==
    /\ postResp.done
    /\ postResp.err = "refused"
    /\ mainPc = "panic"
    /\ Len(posted) = 1
    /\ Len(posted[1]) >= 1

\* The instance's ProjectName names the sakai family: "sakai" occurs in it.
SakaiFamily(inst) ==
    \E a \in 1..Len(inst.ProjectName) :
        /\ a + Len(Sakai) - 1 <= Len(inst.ProjectName)
        /\ SubSeq(inst.ProjectName, a, a + Len(Sakai) - 1) = Sakai

\* C13: the URL a started health task probes is http://ServerIP:HTTPPort/ of
\* its own instance, with the login path appended exactly when the
\* instance's ProjectName names the sakai family, and the root path alone
\* otherwise.
C13_LoginPathIffSakai ==
    \A i \in 1..MaxInstances :
        task[i].pc # "unstarted" =>
            /\ task[i].url.host = instances[i].ServerIP
            /\ task[i].url.port = instances[i].HTTPPort
            /\ SakaiFamily(instances[i]) => task[i].url.path = <<"/", "portal/xlogin">>
            /\ ~SakaiFamily(instances[i]) => task[i].url.path = <<"/">>

\* C13's case: a sakai instance is probed at the login path and another
\* instance at the root path, both requests made.
C13_Witness ==
    \E i, j \in 1..MaxInstances :
        /\ task[i].pc = "done" /\ task[j].pc = "done"
        /\ SakaiFamily(instances[i]) /\ task[i].url.path = <<"/", "portal/xlogin">>
        /\ ~SakaiFamily(instances[j]) /\ task[j].url.path = <<"/">>

\* C14: the batch of every getJmxAttributes call holds exactly the four
\* canonical requests, one per metric Mbean, and each of them targets the
\* management address ServerIP:JmxPort of the instance the call is made for.
C14_BatchTargetsOwnInstance ==
    \A c \in 1..Len(jmxCalls) :
        /\ jmxCalls[c].ServerID = instances[c].ServerID
        /\ Len(jmxCalls[c].requests) = 4
        /\ {jmxCalls[c].requests[k].Mbean : k \in 1..4} = MetricMbeans
        /\ \A k \in 1..Len(jmxCalls[c].requests) :
              jmxCalls[c].requests[k].Target = TargetURL(JmxURL(instances[c]))

\* C15: when the health request fails at transport level, the result the
\* task publishes has success = false and its ServerResponse is the
\* diagnostic of the error, not the elapsed time.
C15_TransportFailurePayloadIsDiagnostic ==
    \A i \in 1..MaxInstances :
        (task[i].pc = "send" /\ task[i].resp.err # "") =>
            /\ ~task[i].result.ServerStatus
            /\ task[i].result.ServerResponse = task[i].resp.err
            /\ task[i].result.ServerResponse # "elapsed_us"

\* The health tasks that have completed their send.
Sent == {i \in 1..MaxInstances : task[i].pc = "done"}

\* C16: every send on the channel meets one receive (the number of tasks
\* that have sent equals the number of results waitForDomains has taken), a
\* task's result is in the list once if it has sent and not at all
\* otherwise, and once waitForDomains has returned every started task has
\* sent: none is blocked on, or still short of, its send.
C16_NoTaskLeftSending ==
    /\ mainPc \in {"wait", "jmx", "done", "panic", "blocked", "deadlock"} =>
          /\ Cardinality(Sent) = returnedCount
          /\ Len(tomcatCheckMapping) = returnedCount
    /\ \A i \in 1..spawned :
          Cardinality(ResultsFor(tomcatCheckMapping, instances[i].ServerID, HealthKind))
              = IF i \in Sent THEN 1 ELSE 0
    /\ (WaitReturned /\ Len(instances) >= 1) =>
          \A i \in 1..MaxInstances :
              /\ i <= spawned => task[i].pc = "done"
              /\ i > spawned => task[i].pc = "unstarted"

\* C16's case: waitForDomains has returned from a wait for two tasks.
C16_Witness ==
    /\ mainPc = "jmx"
    /\ Len(instances) >= 2
    /\ Cardinality(Sent) = Len(instances)

\* How often the result x occurs in list.
Occurrences(list, x) == Cardinality({k \in 1..Len(list) : list[k] = x})

\* The result instance i's health task publishes, fixed by the instance and
\* the outcome of its own request alone.
ResultOf(i) == task[i].result

\* C17: the report is, as a multiset, the results of the instances' health
\* tasks, each fixed by its own instance and its own request's outcome: the
\* interleaving of the tasks decides the order of the report and nothing
\* else.
C17_ReportIsMultisetOfTaskResults ==
    /\ \A i \in 1..MaxInstances :
          task[i].pc = "send" => ResultOf(i) = HealthResult(instances[i], task[i].resp)
    /\ \A p \in 1..Len(posted) :
           /\ Len(posted[p]) = Len(instances)
           /\ \A i \in 1..Len(instances) :
                 /\ ResultOf(i).ServerID = instances[i].ServerID
                 /\ ResultOf(i).DataType = HealthKind
                 /\ Occurrences(posted[p], ResultOf(i))
                       = Cardinality({j \in 1..Len(instances) : ResultOf(j) = ResultOf(i)})
           /\ \A k \in 1..Len(posted[p]) :
                 \E i \in 1..Len(instances) : posted[p][k] = ResultOf(i)

\* C17's case: a report whose order is not the order of the instance list,
\* the second instance's result having arrived first.
C17_Witness ==
    /\ Len(posted) = 1
    /\ Len(posted[1]) >= 2
    /\ posted[1][1].ServerID = instances[2].ServerID
    /\ posted[1][2].ServerID = instances[1].ServerID

====
